---- MODULE Spec2Model ----
(***************************************************************************)
(* puppeteer-network-cache: the bounded request/response cache, the        *)
(* existRequest/existResponse lookup and the waitRequest/waitResponse      *)
(* protocol.                                                               *)
(*                                                                         *)
(* Two versions of the ingest path are modelled, selected by `variant`:   *)
(*   "listener"  src/src/index.ts: page.on(...) dispatches every record on *)
(*               the hub; the cache's own listener awaits the validator    *)
(*               and then stores; wait listeners run during the dispatch.  *)
(*   "emitter"   src/src/index.ts, the class built on EventEmitter (lines   *)
(*               29-186): as "listener", but emit() is left by the         *)
(*               exception of a listener that throws.                      *)
(*   "gated"     src/unnamed/part_001: page.on(...) awaits the validator,  *)
(*               then stores, then emits to the wait listeners.            *)
(*   "scoped"    src/unnamed/part_005: as "gated", with the newest record  *)
(*               first in the store, a browser-wide store and hub next to  *)
(*               the page's, and the globalCache argument.                 *)
(*   "legacy"    src/unnamed/part_006: no validator, the record is stored  *)
(*               and emitted inside the page.on callback; one cacheLimit   *)
(*               for the page's and the browser's store.                   *)
(* The request and the response code are copies of each other; the model   *)
(* is parameterised by the kind k.                                         *)
(*                                                                         *)
(* A RegExp is modelled as a literal pattern without the g and y flags:    *)
(* test() is then the unanchored search computed by `test` below.          *)
(***************************************************************************)
EXTENDS Integers, Sequences, FiniteSets, TLC

VARIABLES
    variant,        \* which version of the ingest path is loaded
    cacheLimit,     \* NetworkCache.cacheLimit / PuppeteerNetworkCache.pageCacheLimit
    cache,          \* cache[k]: NetworkCache.requests / NetworkCache.responses
    validating,     \* ingests suspended at `await this.requestValidatorFn(request)`
    eventTarget,    \* eventTarget[k]: the wait listeners registered for kind k, in order
    timeoutTimer,   \* the waits whose setTimeout is armed
    waits,          \* waits[w]: one call of waitRequest / waitResponse and its promise
    now,            \* Date.now(), as a logical stamp
    ret,            \* the value returned by the last existRequest / existResponse
    accepted,       \* history: accepted[k], the records the validator accepted, in order
    emitted,        \* history: emitted[d], how often the record stamped d was dispatched
    handled,        \* handled[d]: how the page.on callback for the record stamped d ended
    browser         \* part_005: browser.networkCache and the plugin's browserCacheLimit

vars == <<variant, cacheLimit, cache, validating, eventTarget, timeoutTimer,
          waits, now, ret, accepted, emitted, handled, browser>>

(* ------------------------------ bounds --------------------------------- *)

\* Records ingested in a behaviour of SpecExist (the store and the existence check).
MaxIngests == 3
\* Records ingested in a behaviour of Spec (the wait protocol).
MaxTraffic == 2
\* Calls of waitRequest / waitResponse in a behaviour.
MaxWaits == 2
\* Largest cacheLimit configured.
MaxLimit == 2

(* ------------------------------ values --------------------------------- *)

Kinds == {"request", "response"}

Variants == {"listener", "gated"}

\* The URLs https://x/1, https://x/2, https://x/3, written from the x on.
Urls == { <<"x", "/", "1">>, <<"x", "/", "2">>, <<"x", "/", "3">> }

\* The patterns /x\/1/, /x\/3/ and /x\//.
Patterns == { <<"x", "/", "1">>, <<"x", "/", "3">>, <<"x", "/">> }

\* The traffic and the patterns of the wait protocol's behaviours.
TrafficUrls == { <<"x", "/", "1">>, <<"x", "/", "2">> }

WaitPatterns == { <<"x", "/", "1">>, <<"x", "/">> }

NotFound == [url |-> << >>, date |-> 0]

NoRet == [op |-> "none"]

\* waitRequest(urlRegex, timeout = 20000)
DefaultTimeout == 20000

\* The timeouts passed to the waits of part_005 and part_006.
Timeouts == {DefaultTimeout, 50}

NoError == [name |-> "none"]

\* index.ts: new TimeoutError("Timeout wait request")
TimeoutError(k) == [name |-> "TimeoutError", message |-> <<"Timeout wait", k>>]

\* index.ts (EventEmitter class), part_001: new Error('Timeout wait request')
Error(k) == [name |-> "Error", message |-> <<"Timeout wait", k>>]

\* part_005, part_006: new Error('Timeout wait request',
\*     { cause: { urlRegex, timeout, networkCache: page.networkCache } })
ErrorWithCause(k, urlRegex, timeout) ==
    [name |-> "Error", message |-> <<"Timeout wait", k>>,
     cause |-> [urlRegex |-> urlRegex, timeout |-> timeout, networkCache |-> "page.networkCache"]]

\* part_006: `this.existRequest is not a function`, thrown by the call at line 148.
TypeError == [name |-> "TypeError", message |-> <<"this.existRequest", "is not a function">>]

ExtendedHTTPRequest(u, d) == [url |-> u, date |-> d]

\* How one page event was handled: `callback` is the completion of the page.on
\* callback as its caller sees it ("returned" for a synchronous return, else the
\* state of the promise an async callback returns); `persistence` is the state of
\* the promise returned by the cache's own async hub listener, which the dispatch
\* discards.
NotHandled == [callback |-> "none", persistence |-> "none"]

\* browser.networkCache as onBrowser creates it, with the plugin's browserCacheLimit.
BrowserNetworkCache(limit) ==
    [cacheLimit |-> limit,
     cache |-> [k \in Kinds |-> << >>],
     eventEmitter |-> [k \in Kinds |-> << >>]]

\* index.ts and part_001 have no browser-wide cache.
NoBrowser == BrowserNetworkCache(0)

(* --------------------------- pure functions ---------------------------- *)

\* RegExp.prototype.test for a literal pattern: an unanchored search.
test(urlRegex, url) ==
    \E i \in 1..(Len(url) - Len(urlRegex) + 1) :
        SubSeq(url, i, i + Len(urlRegex) - 1) = urlRegex

\* Array.prototype.slice(start), start possibly negative.
slice(arr, start) ==
    LET len == Len(arr)
        k == IF start < 0 THEN (IF len + start < 0 THEN 0 ELSE len + start)
             ELSE (IF start > len THEN len ELSE start)
    IN SubSeq(arr, k + 1, len)

\* push as it would be if the trim were computed from a copy of the array taken
\* before other appends: the store is overwritten with the new record alone.
pushOverwrites(arr, rec, limit) == <<rec>>

\* push as it would be with slice(0, cacheLimit): the newest record is dropped.
pushKeepsOldest(arr, rec, limit) ==
    LET pushed == Append(arr, rec)
    IN IF Len(pushed) > limit THEN SubSeq(pushed, 1, limit) ELSE pushed

\* requests.push(request); if (length > cacheLimit) requests = requests.slice(-cacheLimit)
push(arr, rec, limit) ==
    LET pushed == Append(arr, rec)
    IN IF Len(pushed) > limit THEN slice(pushed, 0 - limit) ELSE pushed

\* unshift as push would compute it: the record goes to the end.
unshiftAtEnd(arr, rec) == Append(arr, rec)

\* Array.prototype.unshift(rec)
unshift(arr, rec) == <<rec>> \o arr

\* Array.prototype.slice(0, end), end >= 0.
sliceFront(arr, end) == SubSeq(arr, 1, IF end > Len(arr) THEN Len(arr) ELSE end)

\* trimFront as it would be with slice(-limit): the newest records are dropped.
trimFrontKeepsOldest(arr, limit) == IF Len(arr) > limit THEN slice(arr, 0 - limit) ELSE arr

\* part_005: if (requests.length > limit) requests = requests.slice(0, limit)
trimFront(arr, limit) == IF Len(arr) > limit THEN sliceFront(arr, limit) ELSE arr

\* persist as it would be without the test of the validator's decision.
persistUnchecked(arr, rec, ok, limit) == push(arr, rec, limit)

\* if (await this.requestValidatorFn(request)) { push; trim }
persist(arr, rec, ok, limit) == IF ok THEN push(arr, rec, limit) ELSE arr

RECURSIVE findLast(_, _, _)
\* find as Array.prototype.findLast would compute it: the last element accepted.
findLast(arr, urlRegex, i) ==
    IF i > Len(arr) THEN NotFound
    ELSE LET later == findLast(arr, urlRegex, i + 1)
         IN IF later # NotFound THEN later
            ELSE IF test(urlRegex, arr[i].url) THEN arr[i] ELSE NotFound

RECURSIVE find(_, _, _)
\* Array.prototype.find from index i: the first element the predicate accepts.
find(arr, urlRegex, i) ==
    IF i > Len(arr) THEN NotFound
    ELSE IF test(urlRegex, arr[i].url) THEN arr[i]
    ELSE find(arr, urlRegex, i + 1)

\* existRequest as it would be if it searched the other kind's array.
existRequestOtherArray(k, urlRegex) ==
    find(cache[CHOOSE o \in Kinds : o # k], urlRegex, 1)

\* this.requests.find((request) => urlRegex.test(request.url()))
existRequest(k, urlRegex) == find(cache[k], urlRegex, 1)

(* ------------------------------- promise ------------------------------- *)

\* A wait: its promise (state, value, error), its arguments (kind, urlRegex, timeout,
\* and in part_005 globalCache), and its history: fast (settled
\* by the store check), callAcc (accepted records of its kind at the call),
\* endAcc (accepted records of its kind when its timer fired), matchRuns / timerRuns
\* (runs of the listener's matching branch / of the timer callback), offered (the
\* records its listener was invoked with).
NoWait ==
    [state |-> "unused", kind |-> "request", urlRegex |-> << >>, value |-> NotFound,
     error |-> NoError, timeout |-> DefaultTimeout,
     globalCache |-> FALSE, fast |-> FALSE, callAcc |-> 0, endAcc |-> 0, matchRuns |-> 0, timerRuns |-> 0,
     offered |-> << >>]

\* resolve(value): settles a pending promise, no effect on a settled one.
resolve(p, value) ==
    IF p.state = "pending" THEN [p EXCEPT !.state = "fulfilled", !.value = value] ELSE p

\* reject(error): settles a pending promise, no effect on a settled one.
reject(p, error) ==
    IF p.state = "pending" THEN [p EXCEPT !.state = "rejected", !.error = error] ELSE p

\* removeListener as it would be if it removed nothing.
removeNoListener(ls, w) == ls

\* removeListener as removeAllListeners would compute it.
removeAllListeners(ls, w) == << >>

removeListener(ls, w) == SelectSeq(ls, LAMBDA x : x # w)

(* ------------------------------- publish ------------------------------- *)

\* listener as it would be without the test of the URL.
listenerOfAnyUrl(h, w, rec) ==
    LET seen == [h.ws EXCEPT ![w].offered = Append(@, rec)]
    IN [ws |-> [seen EXCEPT ![w] = [resolve(@, rec) EXCEPT !.matchRuns = @ + 1]],
        et |-> SelectSeq(h.et, LAMBDA x : x # w),
        tt |-> h.tt \ {w}]

\* listener as it would be without clearTimeout(timeoutTimer).
listenerKeepsTimer(h, w, rec) ==
    LET seen == [h.ws EXCEPT ![w].offered = Append(@, rec)]
    IN IF test(h.ws[w].urlRegex, rec.url)
       THEN [ws |-> [seen EXCEPT ![w] = [resolve(@, rec) EXCEPT !.matchRuns = @ + 1]],
             et |-> SelectSeq(h.et, LAMBDA x : x # w),
             tt |-> h.tt]
       ELSE [h EXCEPT !.ws = seen]

\* The listener of wait w, invoked with rec, on the hub state h = [ws, et, tt].
listener(h, w, rec) ==
    LET seen == [h.ws EXCEPT ![w].offered = Append(@, rec)]
    IN IF test(h.ws[w].urlRegex, rec.url)
       THEN [ws |-> [seen EXCEPT ![w] = [resolve(@, rec) EXCEPT !.matchRuns = @ + 1]],
             et |-> removeListener(h.et, w),
             tt |-> h.tt \ {w}]
       ELSE [h EXCEPT !.ws = seen]

RECURSIVE dispatchUntilHandled(_, _, _, _)
\* dispatch as it would be if it stopped at the first listener that resolved.
dispatchUntilHandled(h, ls, i, rec) ==
    IF i > Len(ls) THEN h
    ELSE LET after == listener(h, ls[i], rec)
         IN IF after.et # h.et THEN after
            ELSE dispatchUntilHandled(after, ls, i + 1, rec)

\* A listener a user of the cache registered on the public hub and that throws.
Thrower == 0

\* EventTarget.dispatchEvent reports the exception of a listener and goes on to
\* the next one; EventEmitter.emit is left by it.
isolates == variant = "listener"

\* The exception of a listener of ls leaves emit and the page.on callback.
interrupted(ls) == ~isolates /\ \E i \in 1..Len(ls) : ls[i] = Thrower

RECURSIVE dispatchOverLiveList(_, _, _, _)
\* dispatch as it would be if it walked the hub's live list by index.
dispatchOverLiveList(h, ls, i, rec) ==
    IF i > Len(h.et) THEN h
    ELSE IF h.et[i] = Thrower
         THEN IF isolates THEN dispatchOverLiveList(h, ls, i + 1, rec) ELSE h
    ELSE dispatchOverLiveList(listener(h, h.et[i], rec), ls, i + 1, rec)

RECURSIVE dispatch(_, _, _, _)
\* dispatchTypedEvent / emit: the listeners of the snapshot ls, in order from i.
dispatch(h, ls, i, rec) ==
    IF i > Len(ls) THEN h
    ELSE IF ls[i] = Thrower
         THEN IF isolates THEN dispatch(h, ls, i + 1, rec) ELSE h
    ELSE dispatch(listener(h, ls[i], rec), ls, i + 1, rec)

\* Publish as it would be if it dispatched on the hub of the other kind.
PublishOnOtherHub(k, rec) ==
    LET o == CHOOSE x \in Kinds : x # k
        h == dispatch([ws |-> waits, et |-> eventTarget[o], tt |-> timeoutTimer],
                      eventTarget[o], 1, rec)
    IN /\ waits' = h.ws
       /\ eventTarget' = [eventTarget EXCEPT ![o] = h.et]
       /\ timeoutTimer' = h.tt
       /\ emitted' = [emitted EXCEPT ![rec.date] = @ + 1]

Publish(k, rec) ==
    LET h == dispatch([ws |-> waits, et |-> eventTarget[k], tt |-> timeoutTimer],
                      eventTarget[k], 1, rec)
    IN /\ waits' = h.ws
       /\ eventTarget' = [eventTarget EXCEPT ![k] = h.et]
       /\ timeoutTimer' = h.tt
       /\ emitted' = [emitted EXCEPT ![rec.date] = @ + 1]

(* ------------------------------- actions ------------------------------- *)

Init ==
    /\ variant \in Variants
    /\ cacheLimit \in 0..MaxLimit
    /\ cache = [k \in Kinds |-> << >>]
    /\ validating = {}
    /\ eventTarget = [k \in Kinds |-> << >>]
    /\ timeoutTimer = {}
    /\ waits = [w \in 1..MaxWaits |-> NoWait]
    /\ now = 1
    /\ ret = NoRet
    /\ accepted = [k \in Kinds |-> << >>]
    /\ emitted = [d \in 1..MaxIngests |-> 0]
    /\ handled = [d \in 1..MaxIngests |-> NotHandled]
    /\ browser = NoBrowser

\* index.ts: page.on("request", ...) stamps the record and dispatches it; the
\* cache's own listener runs up to its await, then the wait listeners run.
PageOnRequest(k, u, n) ==
    /\ variant \in {"listener", "emitter"}
    /\ now <= n
    /\ LET request == ExtendedHTTPRequest(u, now)
       IN /\ validating' = validating \cup {[kind |-> k, rec |-> request]}
          /\ Publish(k, request)
    /\ handled' = [handled EXCEPT ![now] = [callback |-> IF interrupted(eventTarget[k])
                                                          THEN "threw" ELSE "returned",
                                             persistence |-> "pending"]]
    /\ now' = now + 1
    /\ ret' = NoRet
    /\ UNCHANGED <<variant, cacheLimit, cache, accepted, browser>>

\* index.ts: the cache's own listener, resumed with the validator's decision.
PersistRequest(v, ok) ==
    /\ variant \in {"listener", "emitter"}
    /\ v \in validating
    /\ validating' = validating \ {v}
    /\ IF ok
       THEN accepted' = [accepted EXCEPT ![v.kind] = Append(@, v.rec)]
       ELSE UNCHANGED accepted
    /\ cache' = [cache EXCEPT ![v.kind] = persist(@, v.rec, ok, cacheLimit)]
    /\ handled' = [handled EXCEPT ![v.rec.date].persistence = "fulfilled"]
    /\ ret' = NoRet
    /\ UNCHANGED <<variant, cacheLimit, eventTarget, timeoutTimer, waits, now, emitted,
                   browser>>

\* index.ts: the validator threw or its promise rejected: the await at line 261
\* throws inside the async listener, whose promise is rejected; nothing is stored.
PersistRequestThrows(v) ==
    /\ variant \in {"listener", "emitter"}
    /\ v \in validating
    /\ validating' = validating \ {v}
    /\ handled' = [handled EXCEPT ![v.rec.date].persistence = "rejected"]
    /\ ret' = NoRet
    /\ UNCHANGED <<variant, cacheLimit, cache, eventTarget, timeoutTimer, waits, now,
                   accepted, emitted, browser>>

\* part_001: page.on('request', async ...) stamps the record and awaits the validator.
OnPageCreatedRequest(k, u, n) ==
    /\ variant = "gated"
    /\ now <= n
    /\ validating' = validating \cup {[kind |-> k, rec |-> ExtendedHTTPRequest(u, now)]}
    /\ handled' = [handled EXCEPT ![now] = [callback |-> "pending", persistence |-> "none"]]
    /\ now' = now + 1
    /\ ret' = NoRet
    /\ UNCHANGED <<variant, cacheLimit, cache, eventTarget, timeoutTimer, waits,
                   accepted, emitted, browser>>

\* part_001: resumed with the validator's decision: store, trim, then emit.
OnPageCreatedValidated(v, ok) ==
    /\ variant = "gated"
    /\ v \in validating
    /\ validating' = validating \ {v}
    /\ IF ok
       THEN /\ accepted' = [accepted EXCEPT ![v.kind] = Append(@, v.rec)]
            /\ Publish(v.kind, v.rec)
       ELSE UNCHANGED <<accepted, eventTarget, timeoutTimer, waits, emitted>>
    /\ cache' = [cache EXCEPT ![v.kind] = persist(@, v.rec, ok, cacheLimit)]
    /\ handled' = [handled EXCEPT ![v.rec.date].callback = "fulfilled"]
    /\ ret' = NoRet
    /\ UNCHANGED <<variant, cacheLimit, now, browser>>

\* part_001: the validator threw or its promise rejected: the await at line 151
\* throws inside the async page.on callback, whose promise is rejected; nothing is
\* stored and nothing is emitted.
OnPageCreatedThrows(v) ==
    /\ variant = "gated"
    /\ v \in validating
    /\ validating' = validating \ {v}
    /\ handled' = [handled EXCEPT ![v.rec.date].callback = "rejected"]
    /\ ret' = NoRet
    /\ UNCHANGED <<variant, cacheLimit, cache, eventTarget, timeoutTimer, waits, now,
                   accepted, emitted, browser>>

\* ExistRequest as it would be if it took the record it returns out of the store.
ExistRequestTaking(k, urlRegex) ==
    /\ ret' = [op |-> "exist", kind |-> k, urlRegex |-> urlRegex,
               val |-> existRequest(k, urlRegex)]
    /\ cache' = [cache EXCEPT ![k] = SelectSeq(@, LAMBDA r : r # existRequest(k, urlRegex))]
    /\ UNCHANGED <<variant, cacheLimit, validating, eventTarget, timeoutTimer,
                   waits, now, accepted, emitted, handled, browser>>

\* existRequest(urlRegex) / existResponse(urlRegex)
ExistRequest(k, urlRegex) ==
    /\ ret' = [op |-> "exist", kind |-> k, urlRegex |-> urlRegex,
               val |-> existRequest(k, urlRegex)]
    /\ UNCHANGED <<variant, cacheLimit, cache, validating, eventTarget, timeoutTimer,
                   waits, now, accepted, emitted, handled, browser>>

\* WaitRequest as it would be with `if (request) resolve(request);` and no return.
WaitRequestFallsThrough(w, k, urlRegex) ==
    /\ waits[w].state = "unused"
    /\ \A x \in 1..(w - 1) : waits[x].state # "unused"
    /\ LET existing == existRequest(k, urlRegex)
           p == [NoWait EXCEPT !.state = "pending", !.kind = k, !.urlRegex = urlRegex,
                               !.callAcc = Len(accepted[k])]
       IN /\ waits' = [waits EXCEPT ![w] = IF existing # NotFound
                                             THEN [resolve(p, existing) EXCEPT !.fast = TRUE]
                                             ELSE p]
          /\ timeoutTimer' = timeoutTimer \cup {w}
          /\ eventTarget' = [eventTarget EXCEPT ![k] = Append(@, w)]
    /\ UNCHANGED <<variant, cacheLimit, cache, validating, now, ret, accepted, emitted,
                   handled, browser>>

\* waitRequest(urlRegex, timeout) / waitResponse(urlRegex, timeout): the promise executor.
WaitRequest(w, k, urlRegex) ==
    /\ waits[w].state = "unused"
    /\ \A x \in 1..(w - 1) : waits[x].state # "unused"
    /\ LET existing == existRequest(k, urlRegex)
           p == [NoWait EXCEPT !.state = "pending", !.kind = k, !.urlRegex = urlRegex,
                               !.callAcc = Len(accepted[k])]
       IN IF existing # NotFound
          THEN /\ waits' = [waits EXCEPT ![w] = [resolve(p, existing) EXCEPT !.fast = TRUE]]
               /\ UNCHANGED <<eventTarget, timeoutTimer>>
          ELSE /\ waits' = [waits EXCEPT ![w] = p]
               /\ timeoutTimer' = timeoutTimer \cup {w}
               /\ eventTarget' = [eventTarget EXCEPT ![k] = Append(@, w)]
    /\ UNCHANGED <<variant, cacheLimit, cache, validating, now, ret, accepted, emitted,
                   handled, browser>>

\* The error of the setTimeout callback: index.ts:342 / part_001:77.
timeoutError(k) == IF variant = "listener" THEN TimeoutError(k) ELSE Error(k)

\* The setTimeout callback of wait w.
Timeout(w) ==
    /\ w \in timeoutTimer
    /\ timeoutTimer' = timeoutTimer \ {w}
    /\ eventTarget' = [eventTarget EXCEPT ![waits[w].kind] = removeListener(@, w)]
    /\ waits' = [waits EXCEPT ![w] = [reject(@, timeoutError(waits[w].kind))
                                          EXCEPT !.timerRuns = @ + 1,
                                                 !.endAcc = Len(accepted[waits[w].kind])]]
    /\ UNCHANGED <<variant, cacheLimit, cache, validating, now, ret, accepted, emitted,
                   handled, browser>>

(* ------------------------- part_005: two scopes ----------------------- *)

\* part_005: existRequest(urlRegex, globalCache) / existResponse(urlRegex, globalCache)
scopedExistRequest(k, urlRegex, globalCache) ==
    find(IF globalCache THEN browser.cache[k] ELSE cache[k], urlRegex, 1)

\* part_005: page.on('request', async ...) stamps the record and awaits the validator.
ScopedPageOnRequest(k, u, n) ==
    /\ variant = "scoped"
    /\ now <= n
    /\ validating' = validating \cup {[kind |-> k, rec |-> ExtendedHTTPRequest(u, now)]}
    /\ handled' = [handled EXCEPT ![now] = [callback |-> "pending", persistence |-> "none"]]
    /\ now' = now + 1
    /\ ret' = NoRet
    /\ UNCHANGED <<variant, cacheLimit, cache, eventTarget, timeoutTimer, waits,
                   accepted, emitted, browser>>

\* part_005: resumed with the validator's decision: unshift, emit on the page's
\* hub, emit on the browser's hub (its storing listener, registered by onBrowser,
\* runs first), then trim the page's store.
ScopedValidated(v, ok) ==
    /\ variant = "scoped"
    /\ v \in validating
    /\ validating' = validating \ {v}
    /\ IF ok
       THEN LET k == v.kind
                onPage == dispatch([ws |-> waits, et |-> eventTarget[k], tt |-> timeoutTimer],
                                   eventTarget[k], 1, v.rec)
                onBrowser == dispatch([ws |-> onPage.ws, et |-> browser.eventEmitter[k],
                                       tt |-> onPage.tt],
                                      browser.eventEmitter[k], 1, v.rec)
            IN /\ accepted' = [accepted EXCEPT ![k] = Append(@, v.rec)]
               /\ cache' = [cache EXCEPT ![k] = trimFront(unshift(@, v.rec), cacheLimit)]
               /\ browser' = [browser EXCEPT
                                 !.cache[k] = trimFront(unshift(@, v.rec), browser.cacheLimit),
                                 !.eventEmitter[k] = onBrowser.et]
               /\ waits' = onBrowser.ws
               /\ eventTarget' = [eventTarget EXCEPT ![k] = onPage.et]
               /\ timeoutTimer' = onBrowser.tt
               /\ emitted' = [emitted EXCEPT ![v.rec.date] = @ + 2]
       ELSE UNCHANGED <<accepted, cache, browser, waits, eventTarget, timeoutTimer, emitted>>
    /\ handled' = [handled EXCEPT ![v.rec.date].callback = "fulfilled"]
    /\ ret' = NoRet
    /\ UNCHANGED <<variant, cacheLimit, now>>

\* part_005: existRequest(urlRegex, globalCache) / existResponse(urlRegex, globalCache)
ScopedExistRequest(k, urlRegex, globalCache) ==
    /\ variant \in {"scoped", "legacy"}
    /\ ret' = [op |-> "exist", kind |-> k, urlRegex |-> urlRegex, globalCache |-> globalCache,
               val |-> scopedExistRequest(k, urlRegex, globalCache)]
    /\ UNCHANGED <<variant, cacheLimit, cache, validating, eventTarget, timeoutTimer,
                   waits, now, accepted, emitted, handled, browser>>

\* part_005: waitRequest(urlRegex, timeout, globalCache): the promise executor. The
\* store check calls page.networkCache.existRequest(urlRegex), without globalCache.
ScopedWaitRequest(w, k, urlRegex, timeout, globalCache) ==
    /\ variant = "scoped"
    /\ waits[w].state = "unused"
    /\ \A x \in 1..(w - 1) : waits[x].state # "unused"
    /\ LET existing == scopedExistRequest(k, urlRegex, FALSE)
           p == [NoWait EXCEPT !.state = "pending", !.kind = k, !.urlRegex = urlRegex,
                               !.timeout = timeout, !.globalCache = globalCache,
                               !.callAcc = Len(accepted[k])]
       IN IF existing # NotFound
          THEN /\ waits' = [waits EXCEPT ![w] = [resolve(p, existing) EXCEPT !.fast = TRUE]]
               /\ UNCHANGED <<eventTarget, timeoutTimer, browser>>
          ELSE /\ waits' = [waits EXCEPT ![w] = p]
               /\ timeoutTimer' = timeoutTimer \cup {w}
               /\ IF globalCache
                  THEN /\ browser' = [browser EXCEPT !.eventEmitter[k] = Append(@, w)]
                       /\ UNCHANGED eventTarget
                  ELSE /\ eventTarget' = [eventTarget EXCEPT ![k] = Append(@, w)]
                       /\ UNCHANGED browser
    /\ UNCHANGED <<variant, cacheLimit, cache, validating, now, ret, accepted, emitted,
                   handled>>

\* part_005: the setTimeout callback of wait w.
ScopedTimeout(w) ==
    /\ variant \in {"scoped", "legacy"}
    /\ w \in timeoutTimer
    /\ timeoutTimer' = timeoutTimer \ {w}
    /\ IF waits[w].globalCache
       THEN /\ browser' = [browser EXCEPT !.eventEmitter[waits[w].kind] = removeListener(@, w)]
            /\ UNCHANGED eventTarget
       ELSE /\ eventTarget' = [eventTarget EXCEPT ![waits[w].kind] = removeListener(@, w)]
            /\ UNCHANGED browser
    /\ waits' = [waits EXCEPT ![w] =
                     [reject(@, ErrorWithCause(waits[w].kind, waits[w].urlRegex,
                                               waits[w].timeout))
                         EXCEPT !.timerRuns = @ + 1,
                                !.endAcc = Len(accepted[waits[w].kind])]]
    /\ UNCHANGED <<variant, cacheLimit, cache, validating, now, ret, accepted, emitted,
                   handled>>

\* part_005 as the plugin's constructor and onBrowser / onPageCreated leave it.
InitScoped ==
    /\ variant = "scoped"
    /\ cacheLimit \in 1..MaxLimit
    /\ cache = [k \in Kinds |-> << >>]
    /\ validating = {}
    /\ eventTarget = [k \in Kinds |-> << >>]
    /\ timeoutTimer = {}
    /\ waits = [w \in 1..MaxWaits |-> NoWait]
    /\ now = 1
    /\ ret = NoRet
    /\ accepted = [k \in Kinds |-> << >>]
    /\ emitted = [d \in 1..MaxIngests |-> 0]
    /\ handled = [d \in 1..MaxIngests |-> NotHandled]
    /\ \E limit \in 1..MaxLimit : browser = BrowserNetworkCache(limit)

\* part_005 constructed with pageCacheLimit = 0.
InitScopedZero ==
    /\ variant = "scoped"
    /\ cacheLimit = 0
    /\ cache = [k \in Kinds |-> << >>]
    /\ validating = {}
    /\ eventTarget = [k \in Kinds |-> << >>]
    /\ timeoutTimer = {}
    /\ waits = [w \in 1..MaxWaits |-> NoWait]
    /\ now = 1
    /\ ret = NoRet
    /\ accepted = [k \in Kinds |-> << >>]
    /\ emitted = [d \in 1..MaxIngests |-> 0]
    /\ handled = [d \in 1..MaxIngests |-> NotHandled]
    /\ \E limit \in 0..MaxLimit : browser = BrowserNetworkCache(limit)

NextScoped ==
    \/ \E k \in Kinds, u \in TrafficUrls : ScopedPageOnRequest(k, u, MaxTraffic)
    \/ \E v \in validating, ok \in BOOLEAN : ScopedValidated(v, ok)
    \/ \E k \in Kinds, p \in WaitPatterns, g \in BOOLEAN : ScopedExistRequest(k, p, g)
    \/ \E w \in 1..MaxWaits, k \in Kinds, p \in WaitPatterns, g \in BOOLEAN :
           ScopedWaitRequest(w, k, p, DefaultTimeout, g)
    \/ \E w \in 1..MaxWaits : ScopedTimeout(w)

SpecScoped == InitScoped /\ [][NextScoped]_vars

SpecScopedZero == InitScopedZero /\ [][NextScoped]_vars

(* ------------------------------- part_006 ----------------------------- *)

\* part_006: page.on('request', ...) and, from its last await on, page.on('response',
\* async ...): stamp, unshift, emit on the page's hub, emit on the browser's hub
\* (its storing listener runs first), trim the page's store. There is no validator.
LegacyPageOnRequest(k, u, n) ==
    /\ variant = "legacy"
    /\ now <= n
    /\ LET request == ExtendedHTTPRequest(u, now)
           onPage == dispatch([ws |-> waits, et |-> eventTarget[k], tt |-> timeoutTimer],
                              eventTarget[k], 1, request)
           onBrowser == dispatch([ws |-> onPage.ws, et |-> browser.eventEmitter[k],
                                  tt |-> onPage.tt],
                                 browser.eventEmitter[k], 1, request)
       IN /\ accepted' = [accepted EXCEPT ![k] = Append(@, request)]
          /\ cache' = [cache EXCEPT ![k] = sliceFront(unshift(@, request), cacheLimit)]
          /\ browser' = [browser EXCEPT
                            !.cache[k] = sliceFront(unshift(@, request), browser.cacheLimit),
                            !.eventEmitter[k] = onBrowser.et]
          /\ waits' = onBrowser.ws
          /\ eventTarget' = [eventTarget EXCEPT ![k] = onPage.et]
          /\ timeoutTimer' = onBrowser.tt
          /\ emitted' = [emitted EXCEPT ![now] = @ + 2]
    /\ handled' = [handled EXCEPT ![now] = [callback |-> IF k = "request" THEN "returned"
                                                          ELSE "fulfilled",
                                             persistence |-> "none"]]
    /\ now' = now + 1
    /\ ret' = NoRet
    /\ UNCHANGED <<variant, cacheLimit, validating>>

\* part_006: waitRequest / waitResponse(urlRegex, timeout, globalCache): the promise
\* executor. waitResponse checks page.networkCache.existResponse(urlRegex); waitRequest
\* calls this.existRequest(urlRegex), where `this` is the plugin, which has no such
\* method: the call throws and the executor's exception rejects the promise.
LegacyWaitRequest(w, k, urlRegex, timeout, globalCache) ==
    /\ variant = "legacy"
    /\ waits[w].state = "unused"
    /\ \A x \in 1..(w - 1) : waits[x].state # "unused"
    /\ LET p == [NoWait EXCEPT !.state = "pending", !.kind = k, !.urlRegex = urlRegex,
                               !.timeout = timeout, !.globalCache = globalCache,
                               !.callAcc = Len(accepted[k])]
       IN IF k = "request"
          THEN /\ waits' = [waits EXCEPT ![w] = reject(p, TypeError)]
               /\ UNCHANGED <<eventTarget, timeoutTimer, browser>>
          ELSE LET existing == scopedExistRequest(k, urlRegex, FALSE)
               IN IF existing # NotFound
                  THEN /\ waits' = [waits EXCEPT ![w] = [resolve(p, existing)
                                                            EXCEPT !.fast = TRUE]]
                       /\ UNCHANGED <<eventTarget, timeoutTimer, browser>>
                  ELSE /\ waits' = [waits EXCEPT ![w] = p]
                       /\ timeoutTimer' = timeoutTimer \cup {w}
                       /\ IF globalCache
                          THEN /\ browser' = [browser EXCEPT !.eventEmitter[k] = Append(@, w)]
                               /\ UNCHANGED eventTarget
                          ELSE /\ eventTarget' = [eventTarget EXCEPT ![k] = Append(@, w)]
                               /\ UNCHANGED browser
    /\ UNCHANGED <<variant, cacheLimit, cache, validating, now, ret, accepted, emitted,
                   handled>>

\* part_006 as the plugin's constructor and onBrowser / onPageCreated leave it.
InitLegacy ==
    /\ variant = "legacy"
    /\ cacheLimit \in 1..MaxLimit
    /\ cache = [k \in Kinds |-> << >>]
    /\ validating = {}
    /\ eventTarget = [k \in Kinds |-> << >>]
    /\ timeoutTimer = {}
    /\ waits = [w \in 1..MaxWaits |-> NoWait]
    /\ now = 1
    /\ ret = NoRet
    /\ accepted = [k \in Kinds |-> << >>]
    /\ emitted = [d \in 1..MaxIngests |-> 0]
    /\ handled = [d \in 1..MaxIngests |-> NotHandled]
    /\ browser = BrowserNetworkCache(cacheLimit)

NextLegacy ==
    \/ \E k \in Kinds, u \in TrafficUrls : LegacyPageOnRequest(k, u, MaxTraffic)
    \/ \E w \in 1..MaxWaits, k \in Kinds, p \in WaitPatterns, t \in Timeouts, g \in BOOLEAN :
           LegacyWaitRequest(w, k, p, t, g)
    \/ \E w \in 1..MaxWaits : ScopedTimeout(w)

\* The timers of part_006 fire: setTimeout callbacks are eventually run.
SpecLegacy ==
    InitLegacy /\ [][NextLegacy]_vars /\ \A w \in 1..MaxWaits : WF_vars(ScopedTimeout(w))

\* The collaborator's side: at most n page events with the URLs U, and the
\* validator's decisions.
Ingest(n, U) ==
    \/ \E k \in Kinds, u \in U : PageOnRequest(k, u, n)
    \/ \E v \in validating, ok \in BOOLEAN : PersistRequest(v, ok)
    \/ \E k \in Kinds, u \in U : OnPageCreatedRequest(k, u, n)
    \/ \E v \in validating, ok \in BOOLEAN : OnPageCreatedValidated(v, ok)

\* Ingest and the wait protocol.
Next ==
    \/ Ingest(MaxTraffic, TrafficUrls)
    \/ \E w \in 1..MaxWaits, k \in Kinds, p \in WaitPatterns : WaitRequest(w, k, p)
    \/ \E w \in 1..MaxWaits : Timeout(w)

Spec == Init /\ [][Next]_vars

\* The wait protocol of index.ts and part_001 with timers that fire: a setTimeout
\* callback that stays armed is eventually run.
SpecFair == Spec /\ \A w \in 1..MaxWaits : WF_vars(Timeout(w))

\* eventTarget.addEventListener("request", () => { throw ... }) by a user of the
\* cache, on the public hub of index.ts.
AddThrowingListener(k) ==
    /\ variant \in {"listener", "emitter"}
    /\ \A i \in 1..Len(eventTarget[k]) : eventTarget[k][i] # Thrower
    /\ eventTarget' = [eventTarget EXCEPT ![k] = Append(@, Thrower)]
    /\ UNCHANGED <<variant, cacheLimit, cache, validating, timeoutTimer, waits, now, ret,
                   accepted, emitted, handled, browser>>

\* The two classes of index.ts as their constructors leave them.
InitCallbacks ==
    /\ variant \in {"listener", "emitter"}
    /\ cacheLimit \in 1..MaxLimit
    /\ cache = [k \in Kinds |-> << >>]
    /\ validating = {}
    /\ eventTarget = [k \in Kinds |-> << >>]
    /\ timeoutTimer = {}
    /\ waits = [w \in 1..MaxWaits |-> NoWait]
    /\ now = 1
    /\ ret = NoRet
    /\ accepted = [k \in Kinds |-> << >>]
    /\ emitted = [d \in 1..MaxIngests |-> 0]
    /\ handled = [d \in 1..MaxIngests |-> NotHandled]
    /\ browser = NoBrowser

\* The wait protocol with listeners that throw.
NextCallbacks ==
    \/ \E k \in Kinds, u \in TrafficUrls : PageOnRequest(k, u, MaxTraffic)
    \/ \E v \in validating, ok \in BOOLEAN : PersistRequest(v, ok)
    \/ \E w \in 1..MaxWaits, k \in Kinds, p \in WaitPatterns : WaitRequest(w, k, p)
    \/ \E w \in 1..MaxWaits : Timeout(w)
    \/ \E k \in Kinds : AddThrowingListener(k)

SpecCallbacks == InitCallbacks /\ [][NextCallbacks]_vars

\* Ingest and the existence check.
NextExist ==
    \/ Ingest(MaxIngests, Urls)
    \/ \E k \in Kinds, p \in Patterns : ExistRequest(k, p)

SpecExist == Init /\ [][NextExist]_vars

\* The object with stamp d in the sequence arr, with its url property set to u.
assign(arr, d, u) ==
    [i \in 1..Len(arr) |-> IF arr[i].date = d THEN [arr[i] EXCEPT !.url = u] ELSE arr[i]]

\* The caller of existRequest / existResponse assigns to the url property of the
\* object it was handed. find() handed it the element of the array itself, so the
\* assignment is seen through every reference to that object.
CallerMutates(u) ==
    /\ ret.op = "exist"
    /\ ret.val # NotFound
    /\ ret.val.url # u
    /\ ret' = [ret EXCEPT !.val.url = u]
    /\ cache' = [cache EXCEPT ![ret.kind] = assign(@, ret.val.date, u)]
    /\ validating' = {IF v.kind = ret.kind /\ v.rec.date = ret.val.date
                         THEN [v EXCEPT !.rec.url = u] ELSE v : v \in validating}
    /\ waits' = [w \in DOMAIN waits |->
                     IF /\ waits[w].state = "fulfilled"
                        /\ waits[w].kind = ret.kind
                        /\ waits[w].value.date = ret.val.date
                     THEN [waits[w] EXCEPT !.value.url = u] ELSE waits[w]]
    /\ UNCHANGED <<variant, cacheLimit, eventTarget, timeoutTimer, now, accepted, emitted,
                   handled, browser>>

\* Ingest, the existence check and a caller that writes to what it was handed.
NextMutation ==
    \/ NextExist
    \/ \E u \in Urls : CallerMutates(u)

SpecMutation == Init /\ [][NextMutation]_vars

\* requestValidatorFn as it would be if it saved no request.
requestValidatorFnRejects(request) == FALSE

\* requestValidatorFn = () => true, the validator of a cache that was given none.
requestValidatorFn(request) == TRUE

\* responseValidatorFn = () => true
responseValidatorFn(response) == TRUE

\* The decision of the validators a cache has when none was configured.
validatorFn(v) ==
    IF v.kind = "request" THEN requestValidatorFn(v.rec) ELSE responseValidatorFn(v.rec)

\* Ingest and the wait protocol of a cache that was given no validator.
NextDefault ==
    \/ \E k \in Kinds, u \in TrafficUrls : PageOnRequest(k, u, MaxIngests)
    \/ \E v \in validating : PersistRequest(v, validatorFn(v))
    \/ \E k \in Kinds, u \in TrafficUrls : OnPageCreatedRequest(k, u, MaxIngests)
    \/ \E v \in validating : OnPageCreatedValidated(v, validatorFn(v))
    \/ \E w \in 1..MaxWaits, k \in Kinds, p \in WaitPatterns : WaitRequest(w, k, p)
    \/ \E w \in 1..MaxWaits : Timeout(w)

SpecDefault == Init /\ [][NextDefault]_vars

\* The promise executor of waitRequest as it would be with an await between the
\* store check and the registrations.
executorAwaitsAfterCheck == TRUE

\* The promise executor of waitRequest / waitResponse contains an await: it
\* contains none, `new Promise` runs it synchronously to its end.
executorAwaits == FALSE

\* A promise executor is on the call stack: nothing else runs before it returns.
Running == ~executorAwaits /\ \E w \in 1..MaxWaits : waits[w].state = "executing"

\* waitRequest / waitResponse, first statements of the executor: the store check
\* and, on a hit, return resolve(existing).
WaitRequestCheck(w, k, urlRegex) ==
    /\ ~Running
    /\ waits[w].state = "unused"
    /\ \A x \in 1..(w - 1) : waits[x].state # "unused"
    /\ LET existing == existRequest(k, urlRegex)
           p == [NoWait EXCEPT !.state = "pending", !.kind = k, !.urlRegex = urlRegex,
                               !.callAcc = Len(accepted[k])]
       IN waits' = [waits EXCEPT ![w] = IF existing # NotFound
                                         THEN [resolve(p, existing) EXCEPT !.fast = TRUE]
                                         ELSE [p EXCEPT !.state = "executing"]]
    /\ UNCHANGED <<variant, cacheLimit, cache, validating, eventTarget, timeoutTimer, now,
                   ret, accepted, emitted, handled, browser>>

\* waitRequest / waitResponse, rest of the executor: setTimeout and addEventListener.
WaitRequestSubscribe(w) ==
    /\ waits[w].state = "executing"
    /\ waits' = [waits EXCEPT ![w].state = "pending"]
    /\ timeoutTimer' = timeoutTimer \cup {w}
    /\ eventTarget' = [eventTarget EXCEPT ![waits[w].kind] = Append(@, w)]
    /\ UNCHANGED <<variant, cacheLimit, cache, validating, now, ret, accepted, emitted,
                   handled, browser>>

\* Ingest and the wait protocol, the executor of a wait taken statement by
\* statement; page events, validator continuations and timer callbacks run only
\* when no executor is on the call stack.
NextStatements ==
    \/ ~Running /\ Ingest(MaxTraffic, TrafficUrls)
    \/ ~Running /\ \E w \in 1..MaxWaits : Timeout(w)
    \/ \E w \in 1..MaxWaits, k \in Kinds, p \in WaitPatterns : WaitRequestCheck(w, k, p)
    \/ \E w \in 1..MaxWaits : WaitRequestSubscribe(w)

SpecStatements == Init /\ [][NextStatements]_vars

\* networkCache.cacheLimit = limit, by the owner of the cache: a public field,
\* assigned between ingests; the stores are not touched by the assignment.
SetCacheLimit(limit) ==
    /\ limit # cacheLimit
    /\ cacheLimit' = limit
    /\ UNCHANGED <<variant, cache, validating, eventTarget, timeoutTimer, waits, now, ret,
                   accepted, emitted, handled, browser>>

\* Ingest with a capacity that is positive and changes between ingests.
NextCapacity ==
    \/ Ingest(MaxIngests, TrafficUrls)
    \/ \E limit \in 1..MaxLimit : SetCacheLimit(limit)

\* A cache constructed with a positive capacity.
InitCapacity == Init /\ cacheLimit >= 1

SpecCapacity == InitCapacity /\ [][NextCapacity]_vars

\* The flags of a pattern: none, global, sticky.
Flags == {"", "g", "y"}

\* A RegExp object: new RegExp(source, flags), lastIndex 0.
RegExp(source, flags) == [source |-> source, flags |-> flags, lastIndex |-> 0]

\* The positions at which the literal source matches in url.
matchesAt(source, url) ==
    {i \in 1..(Len(url) - Len(source) + 1) : SubSeq(url, i, i + Len(source) - 1) = source}

\* RegExp.prototype.test on the object re: the result and the object afterwards.
\* Without g or y the search starts at 0 and lastIndex is not touched; with g it
\* starts at lastIndex, with y it matches at lastIndex only; a match sets
\* lastIndex to its end, a failure to 0.
regExpTest(re, url) ==
    IF re.flags = ""
    THEN [found |-> matchesAt(re.source, url) # {}, re |-> re]
    ELSE LET from == {i \in matchesAt(re.source, url) :
                         IF re.flags = "y" THEN i = re.lastIndex + 1 ELSE i > re.lastIndex}
         IN IF from = {}
            THEN [found |-> FALSE, re |-> [re EXCEPT !.lastIndex = 0]]
            ELSE LET i == CHOOSE m \in from : \A o \in from : m <= o
                 IN [found |-> TRUE,
                     re |-> [re EXCEPT !.lastIndex = i + Len(re.source) - 1]]

RECURSIVE findRegExp(_, _, _)
\* this.requests.find((request) => urlRegex.test(request.url())) from index i, with
\* the pattern object as each test leaves it.
findRegExp(arr, re, i) ==
    IF i > Len(arr) THEN [val |-> NotFound, re |-> re]
    ELSE LET t == regExpTest(re, arr[i].url)
         IN IF t.found THEN [val |-> arr[i], re |-> t.re]
            ELSE findRegExp(arr, t.re, i + 1)

\* existRequest(urlRegex) / existResponse(urlRegex) with the pattern object re.
ExistRequestRegExp(k, re) ==
    /\ LET found == findRegExp(cache[k], re, 1)
       IN ret' = [op |-> "exist", kind |-> k, urlRegex |-> found.re, val |-> found.val,
                  called |-> re]
    /\ UNCHANGED <<variant, cacheLimit, cache, validating, eventTarget, timeoutTimer,
                   waits, now, accepted, emitted, handled, browser>>

\* The pattern objects a caller can pass: a new one, or the one it passed to
\* the previous check.
RegExps ==
    {RegExp(source, flags) : source \in WaitPatterns, flags \in Flags}
        \cup (IF ret.op = "exist" THEN {ret.urlRegex} ELSE {})

\* Ingest and existence checks with patterns that carry flags.
NextRegExp ==
    \/ Ingest(MaxIngests, TrafficUrls)
    \/ \E k \in Kinds, re \in RegExps : ExistRequestRegExp(k, re)

SpecRegExp == Init /\ [][NextRegExp]_vars

\* The wait protocol with a validator that may also fail.
NextValidator ==
    \/ Next
    \/ \E v \in validating : PersistRequestThrows(v)
    \/ \E v \in validating : OnPageCreatedThrows(v)

SpecValidator == Init /\ [][NextValidator]_vars

\* The wait protocol and the existence check together.
NextConsistency ==
    \/ Next
    \/ \E k \in Kinds, p \in WaitPatterns : ExistRequest(k, p)

SpecConsistency == Init /\ [][NextConsistency]_vars

(* ------------------------- auxiliary definitions ----------------------- *)

Min(a, b) == IF a < b THEN a ELSE b

Range(s) == {s[i] : i \in 1..Len(s)}

\* The last n elements of s, in the order of s.
LastN(s, n) == [i \in 1..Min(Len(s), n) |-> s[Len(s) - Min(Len(s), n) + i]]

\* The indices of the records of arr whose URL urlRegex matches.
MatchingAt(arr, urlRegex) == {i \in 1..Len(arr) : test(urlRegex, arr[i].url)}

\* The position of record r in the history of accepted records of kind k.
AcceptedAt(k, r) == CHOOSE i \in 1..Len(accepted[k]) : accepted[k][i] = r

\* The stamps of the candidates that the validator has decided to reject.
RejectedDates ==
    {d \in 1..(now - 1) :
        /\ \A v \in validating : v.rec.date # d
        /\ \A k \in Kinds : \A r \in Range(accepted[k]) : r.date # d
        /\ handled[d].persistence # "rejected"
        /\ handled[d].callback # "rejected"}

UrlsOf(s) == [i \in 1..Len(s) |-> s[i].url]

(* ------------------------------ properties ----------------------------- *)

\* C1: with capacity C >= 1, the store of each kind holds exactly min(N, C)
\* records, N being the number of accepted records of that kind; they are the
\* C most recently accepted ones, oldest first in acceptance order, and the
\* record accepted last is always retained.
CapacityInvariant ==
    cacheLimit >= 1 =>
        \A k \in Kinds :
            /\ Len(cache[k]) = Min(Len(accepted[k]), cacheLimit)
            /\ cache[k] = LastN(accepted[k], cacheLimit)
            /\ accepted[k] # << >> =>
                   cache[k][Len(cache[k])] = accepted[k][Len(accepted[k])]

\* Three records of one kind were accepted with capacity 2: the oldest was dropped.
CapacityOverflowReached ==
    \E k \in Kinds :
        /\ cacheLimit = 2
        /\ Len(accepted[k]) = 3
        /\ validating = {}

\* C7: a candidate the validator rejects is never in the store, and the step
\* that completes its ingest leaves the stores exactly as they were.
RejectedLeavesStore ==
    /\ [](\A k \in Kinds : Range(cache[k]) \subseteq Range(accepted[k]))
    /\ [][\A v \in validating :
              (v \notin validating' /\ accepted' = accepted) => cache' = cache]_vars

\* A candidate was rejected after the store of some kind had become full.
RejectedWhileFullReached ==
    \E k \in Kinds, d \in RejectedDates :
        /\ cacheLimit >= 1
        /\ Len(cache[k]) = cacheLimit
        /\ \A r \in Range(cache[k]) : r.date < d

ExistIffRetained ==
    ret.op = "exist" =>
        LET arr == cache[ret.kind]
        IN /\ (ret.val # NotFound) <=> (MatchingAt(arr, ret.urlRegex) # {})
           /\ ret.val # NotFound =>
                  /\ ret.val \in Range(arr)
                  /\ test(ret.urlRegex, ret.val.url)

\* The check found nothing in a store that holds records, while the other
\* kind's store holds a match.
ExistNotFoundReached ==
    /\ ret.op = "exist"
    /\ ret.val = NotFound
    /\ cache[ret.kind] # << >>
    /\ \E k \in Kinds : k # ret.kind /\ MatchingAt(cache[k], ret.urlRegex) # {}

(* --------------------------- the wait protocol ------------------------- *)

Waits == 1..MaxWaits

Subscribed(w) == w \in Range(eventTarget[waits[w].kind])

\* The record stamped d, of kind k, among the candidates and the accepted records.
RecordsAt(k, d, vs, acc) ==
    {v.rec : v \in {x \in vs : x.kind = k /\ x.rec.date = d}}
        \cup {r \in Range(acc[k]) : r.date = d}

\* C3: a wait called while the store holds a match settles with the lowest-index
\* match of the store as it is at the call, registers no listener and arms no
\* timer, then or later, and its outcome never changes.
FastPath ==
    /\ [](\A w \in Waits :
              waits[w].fast =>
                  /\ waits[w].state = "fulfilled"
                  /\ ~Subscribed(w)
                  /\ w \notin timeoutTimer
                  /\ waits[w].offered = << >>
                  /\ waits[w].timerRuns = 0)
    /\ [][\A w \in Waits :
              /\ (/\ waits[w].state = "unused"
                  /\ waits'[w].state # "unused"
                  /\ MatchingAt(cache[waits'[w].kind], waits'[w].urlRegex) # {})
                 => LET arr == cache[waits'[w].kind]
                        m == MatchingAt(arr, waits'[w].urlRegex)
                    IN /\ waits'[w].fast
                       /\ waits'[w].state = "fulfilled"
                       /\ \E i \in m : waits'[w].value = arr[i] /\ \A j \in m : i <= j
              /\ waits[w].fast => waits'[w] = waits[w]]_vars

\* A wait settled on the fast path, and a matching record was ingested and
\* accepted afterwards.
FastPathThenTrafficReached ==
    \E w \in Waits :
        /\ waits[w].fast
        /\ \E r \in Range(accepted[waits[w].kind]) :
               /\ AcceptedAt(waits[w].kind, r) > waits[w].callAcc
               /\ test(waits[w].urlRegex, r.url)

\* C5: a wait is settled at most once: its listener's matching branch and its
\* timer callback never both run, a wait fulfilled by a match is never rejected
\* and a wait that timed out is never fulfilled; a settled wait stays as it is.
ExactlyOnceSettlement ==
    /\ [](\A w \in Waits :
              /\ waits[w].matchRuns + waits[w].timerRuns <= 1
              /\ waits[w].fast => waits[w].matchRuns = 0 /\ waits[w].timerRuns = 0
              /\ (waits[w].state = "fulfilled") <=> (waits[w].fast \/ waits[w].matchRuns = 1)
              /\ (waits[w].state = "rejected") <=> (waits[w].timerRuns = 1)
              /\ (waits[w].state = "pending") <=> (Subscribed(w) /\ w \in timeoutTimer)
              /\ Subscribed(w) <=> (w \in timeoutTimer))
    /\ [][\A w \in Waits :
              waits[w].state \in {"fulfilled", "rejected"} =>
                  /\ waits'[w].state = waits[w].state
                  /\ waits'[w].value = waits[w].value]_vars

\* Two waits for the same pattern and kind: one timed out, then a matching record
\* was published and fulfilled the other.
MatchAfterTimeoutReached ==
    \E w1, w2 \in Waits :
        /\ waits[w1].state = "rejected"
        /\ waits[w2].state = "fulfilled"
        /\ ~waits[w2].fast
        /\ waits[w1].kind = waits[w2].kind
        /\ waits[w1].urlRegex = waits[w2].urlRegex
        /\ waits[w2].value \in Range(accepted[waits[w2].kind])
        /\ AcceptedAt(waits[w2].kind, waits[w2].value) > waits[w1].endAcc
        /\ waits[w1].offered = << >>

\* C8: a record is published at most once and every accepted record exactly
\* once; the publish invokes the listener of every wait of that kind subscribed
\* at that moment once with that record, within the same step, and invokes no
\* other listener; every subscribed wait whose pattern matches is fulfilled
\* with the record and every other wait is left as it was.
PublishReachesEverySubscriber ==
    /\ [](\A k \in Kinds : \A r \in Range(accepted[k]) : emitted[r.date] = 1)
    /\ [][\A d \in DOMAIN emitted :
              emitted'[d] # emitted[d] =>
                  /\ emitted[d] = 0
                  /\ emitted'[d] = 1
                  /\ \E k \in Kinds :
                         \E r \in RecordsAt(k, d, validating', accepted') :
                             \A w \in Waits :
                                 IF Subscribed(w) /\ waits[w].kind = k
                                 THEN /\ waits'[w].offered = Append(waits[w].offered, r)
                                      /\ IF test(waits[w].urlRegex, r.url)
                                         THEN /\ waits'[w].state = "fulfilled"
                                              /\ waits'[w].value = r
                                         ELSE /\ waits'[w].state = waits[w].state
                                              /\ waits'[w].value = waits[w].value
                                 ELSE waits'[w] = waits[w]]_vars

\* Two subscribed waits of one kind were fulfilled by the same publish.
BothSubscribersResolvedReached ==
    \E w1, w2 \in Waits :
        /\ w1 # w2
        /\ waits[w1].state = "fulfilled" /\ ~waits[w1].fast
        /\ waits[w2].state = "fulfilled" /\ ~waits[w2].fast
        /\ waits[w1].value = waits[w2].value
        /\ waits[w1].urlRegex # waits[w2].urlRegex

\* The candidates still awaiting their verdict.
Candidates(k) == {v.rec : v \in {x \in validating : x.kind = k}}

\* w was fulfilled with a record the validator has rejected.
ResolvedWithRejected(w) ==
    /\ waits[w].state = "fulfilled"
    /\ waits[w].value.date \in RejectedDates

\* The accepted records of w's kind that match its pattern and were accepted
\* after its call and, if it timed out, before its timer fired.
AcceptedInLifetime(w) ==
    LET k == waits[w].kind
    IN {r \in Range(accepted[k]) :
            /\ test(waits[w].urlRegex, r.url)
            /\ AcceptedAt(k, r) > waits[w].callAcc
            /\ (waits[w].state = "rejected" => AcceptedAt(k, r) <= waits[w].endAcc)}

\* C6: no wait is fulfilled with a record the validator rejected; while the
\* validator has accepted nothing of a kind, that kind's store is empty and no
\* wait on that kind is fulfilled.
ValidationGatesWaits ==
    /\ \A w \in Waits : ~ResolvedWithRejected(w)
    /\ \A k \in Kinds :
           (accepted[k] = << >> /\ Candidates(k) = {}) =>
               /\ cache[k] = << >>
               /\ \A w \in Waits : waits[w].kind = k => waits[w].state # "fulfilled"

\* C6 holds where the validator is awaited before the publish (onPageCreated).
ValidationGatesWaitsWhenGated == variant = "gated" => ValidationGatesWaits

\* C2: a wait called on a store without a match is fulfilled with the first
\* matching record accepted afterwards: once such a record is accepted the wait
\* is fulfilled, and with an accepted matching record none of the others preceded.
LateArrival ==
    \A w \in Waits :
        (waits[w].state # "unused" /\ ~waits[w].fast /\ AcceptedInLifetime(w) # {}) =>
            /\ waits[w].state = "fulfilled"
            /\ waits[w].value \notin Candidates(waits[w].kind) =>
                   /\ waits[w].value \in AcceptedInLifetime(w)
                   /\ \A s \in AcceptedInLifetime(w) :
                          AcceptedAt(waits[w].kind, waits[w].value)
                              <= AcceptedAt(waits[w].kind, s)

\* C2 holds where the validator is awaited before the publish (onPageCreated).
LateArrivalWhenGated == variant = "gated" => LateArrival

\* C4: a subscribed wait is fulfilled only by a matching record that is accepted,
\* so that without one it stays pending, its timer armed, until the timer rejects
\* it; a timed-out wait has neither listener nor timer, its listener is invoked
\* with no later record and its outcome no longer changes.
TimeoutCorrectness ==
    /\ [](\A w \in Waits :
              /\ (waits[w].state = "fulfilled" /\ ~waits[w].fast) =>
                     waits[w].value \in Candidates(waits[w].kind)
                                            \cup Range(accepted[waits[w].kind])
              /\ waits[w].state = "pending" => w \in timeoutTimer
              /\ waits[w].state = "rejected" => ~Subscribed(w) /\ w \notin timeoutTimer)
    /\ [][\A w \in Waits :
              /\ (w \in timeoutTimer /\ w \notin timeoutTimer' /\ waits'[w].timerRuns = 1)
                     => waits'[w].state = "rejected"
              /\ waits[w].state = "rejected" => waits'[w] = waits[w]]_vars

\* The timeout and clean-up half of C4 alone, which holds in both variants.
TimeoutCleanup ==
    /\ [](\A w \in Waits :
              /\ waits[w].state = "pending" => w \in timeoutTimer
              /\ waits[w].state = "rejected" => ~Subscribed(w) /\ w \notin timeoutTimer)
    /\ [][\A w \in Waits :
              /\ (w \in timeoutTimer /\ w \notin timeoutTimer' /\ waits'[w].timerRuns = 1)
                     => waits'[w].state = "rejected"
              /\ waits[w].state = "rejected" => waits'[w] = waits[w]]_vars

\* C4 holds where the validator is awaited before the publish (onPageCreated).
TimeoutCorrectnessWhenGated ==
    /\ TimeoutCleanup
    /\ [](variant = "gated" =>
              \A w \in Waits :
                  (waits[w].state = "fulfilled" /\ ~waits[w].fast) =>
                      waits[w].value \in Range(accepted[waits[w].kind]))

(* ---------------------------- validator failure ------------------------ *)

\* The stamps of the candidates on which the validator failed.
FailedDates ==
    {d \in DOMAIN handled :
        handled[d].persistence = "rejected" \/ handled[d].callback = "rejected"}

\* C11: a candidate on which the validator failed is in no store, was dispatched
\* to no listener, is the value of no wait, and the page.on callback that
\* ingested it ended with the failure (its promise is rejected).
ValidatorFailureIsRejection ==
    \A d \in FailedDates :
        /\ \A k \in Kinds : \A r \in Range(cache[k]) : r.date # d
        /\ emitted[d] = 0
        /\ \A w \in Waits :
               /\ \A r \in Range(waits[w].offered) : r.date # d
               /\ waits[w].state = "fulfilled" => waits[w].value.date # d
        /\ handled[d].callback = "rejected"

\* C11 holds where the validator is awaited inside the page.on callback, before
\* the push and the emit (onPageCreated).
ValidatorFailureIsRejectionWhenGated == variant = "gated" => ValidatorFailureIsRejection

(* ------------------------------ timeout frame -------------------------- *)

\* C12: the step in which the timer of wait w fires changes no store; every
\* other wait is exactly as before, its listener still registered at the same
\* place among the others and its timer still armed.
TimeoutFrame ==
    [][\A w \in Waits :
           waits'[w].timerRuns # waits[w].timerRuns =>
               /\ cache' = cache
               /\ accepted' = accepted
               /\ validating' = validating
               /\ \A x \in Waits \ {w} : waits'[x] = waits[x]
               /\ timeoutTimer' = timeoutTimer \ {w}
               /\ \A k \in Kinds :
                      eventTarget'[k] = SelectSeq(eventTarget[k], LAMBDA x : x # w)]_vars

\* Two waits were pending together; the later one timed out, and the earlier
\* one was then fulfilled by a record published after that timeout.
ResolvedAfterOthersTimeoutReached ==
    \E w1, w2 \in Waits :
        /\ w2 < w1
        /\ waits[w1].state = "rejected"
        /\ waits[w1].kind = waits[w2].kind
        /\ waits[w2].state = "fulfilled"
        /\ waits[w2].matchRuns = 1
        /\ waits[w2].value \in Range(accepted[waits[w2].kind])
        /\ AcceptedAt(waits[w2].kind, waits[w2].value) > waits[w1].endAcc
        /\ Len(waits[w2].offered) = 2

(* ----------------------- existence check and wait ---------------------- *)

\* The scope of the last existence check.
RetGlobalCache == IF "globalCache" \in DOMAIN ret THEN ret.globalCache ELSE FALSE

\* C13: a wait called for the kind, pattern and scope of the last existence
\* check, with no ingest in between, agrees with it: after NotFound the wait
\* is not settled from a store but pending with its listener registered, and
\* after a record the wait is settled at once with that same record.
ExistWaitConsistent ==
    [][\A w \in Waits :
           (/\ waits[w].state = "unused"
            /\ waits'[w].state # "unused"
            /\ ret.op = "exist"
            /\ ret.kind = waits'[w].kind
            /\ ret.urlRegex = waits'[w].urlRegex
            /\ RetGlobalCache = waits'[w].globalCache)
           => IF ret.val = NotFound
              THEN /\ waits'[w].state = "pending"
                   /\ ~waits'[w].fast
                   /\ \/ w \in Range(eventTarget'[ret.kind])
                      \/ w \in Range(browser'.eventEmitter[ret.kind])
              ELSE /\ waits'[w].fast
                   /\ waits'[w].state = "fulfilled"
                   /\ waits'[w].value = ret.val]_vars

\* C13 holds in part_005 for the page scope (globalCache = false).
ExistWaitConsistentOnPage ==
    [][\A w \in Waits :
           (/\ waits[w].state = "unused"
            /\ waits'[w].state # "unused"
            /\ ~waits'[w].globalCache
            /\ ret.op = "exist"
            /\ ret.kind = waits'[w].kind
            /\ ret.urlRegex = waits'[w].urlRegex
            /\ ~RetGlobalCache)
           => IF ret.val = NotFound
              THEN /\ waits'[w].state = "pending"
                   /\ ~waits'[w].fast
                   /\ w \in Range(eventTarget'[ret.kind])
              ELSE /\ waits'[w].fast
                   /\ waits'[w].state = "fulfilled"
                   /\ waits'[w].value = ret.val]_vars

(* ------------------------------- ordering ------------------------------ *)

\* s lists accepted records of kind k in the order of their acceptance.
InAcceptanceOrder(k, s) ==
    \A i, j \in 1..Len(s) :
        (i < j /\ s[i] \in Range(accepted[k]) /\ s[j] \in Range(accepted[k]))
            => AcceptedAt(k, s[i]) < AcceptedAt(k, s[j])

\* C14: the accepted records a listener was offered were offered in the order
\* of their acceptance, and the store lists its records in that order, oldest
\* first.
PublishInAcceptanceOrder ==
    /\ \A w \in Waits : InAcceptanceOrder(waits[w].kind, waits[w].offered)
    /\ \A k \in Kinds : InAcceptanceOrder(k, cache[k])

\* C14 holds where the record is emitted when it is accepted (onPageCreated).
PublishInAcceptanceOrderWhenGated == variant = "gated" => PublishInAcceptanceOrder

\* The store half of C14 alone, which holds in both orderings.
StoreInAcceptanceOrder == \A k \in Kinds : InAcceptanceOrder(k, cache[k])

\* In the onPageCreated ordering a listener was offered two records whose
\* validators finished in the reverse of their arrival.
OfferedOutOfArrivalOrderReached ==
    /\ variant = "gated"
    /\ \E w \in Waits :
           /\ Len(waits[w].offered) = 2
           /\ waits[w].offered[1].date > waits[w].offered[2].date

(* ---------------------------- wait outcomes ---------------------------- *)

\* The error is the timeout error of a wait for kind k.
IsTimeoutError(error, k) ==
    /\ error.name \in {"TimeoutError", "Error"}
    /\ error.message = <<"Timeout wait", k>>

\* C15: a settled wait is either fulfilled with a record its pattern matches
\* or rejected with the timeout error of its kind; no wait is rejected with
\* anything else.
WaitOutcomes ==
    \A w \in Waits :
        /\ waits[w].state \in {"unused", "pending", "fulfilled", "rejected"}
        /\ waits[w].state = "fulfilled" =>
               /\ test(waits[w].urlRegex, waits[w].value.url)
               /\ waits[w].error = NoError
        /\ waits[w].state = "rejected" => IsTimeoutError(waits[w].error, waits[w].kind)

\* C15 holds for waitResponse in part_006.
WaitOutcomesOfResponses ==
    \A w \in Waits :
        (waits[w].kind = "response" /\ waits[w].state = "rejected")
            => IsTimeoutError(waits[w].error, waits[w].kind)

(* ------------------------------- liveness ------------------------------ *)

\* C16: with timers that fire, every wait that was called is eventually
\* settled, fulfilled with a record or rejected with the timeout error.
EveryWaitSettles ==
    \A w \in Waits :
        (waits[w].state # "unused")
            ~> \/ waits[w].state = "fulfilled"
               \/ waits[w].state = "rejected" /\ IsTimeoutError(waits[w].error, waits[w].kind)

\* C16 holds for waitResponse in part_006.
EveryResponseWaitSettles ==
    \A w \in Waits :
        (waits[w].state # "unused" /\ waits[w].kind = "response")
            ~> \/ waits[w].state = "fulfilled"
               \/ waits[w].state = "rejected" /\ IsTimeoutError(waits[w].error, waits[w].kind)

(* -------------------------- callback isolation ------------------------- *)

\* C17: the publish of a record hands it to the cache's storing listener and
\* invokes the listener of every wait of that kind subscribed at that moment,
\* also of those registered after a listener that throws; every such wait whose
\* pattern matches is fulfilled with the record.
CallbackIsolation ==
    [][\A d \in DOMAIN emitted :
           emitted'[d] # emitted[d] =>
               \E k \in Kinds :
                   \E r \in RecordsAt(k, d, validating', accepted') :
                       /\ [kind |-> k, rec |-> r] \in validating'
                       /\ \A w \in Waits :
                              (Subscribed(w) /\ waits[w].kind = k) =>
                                  /\ waits'[w].offered = Append(waits[w].offered, r)
                                  /\ test(waits[w].urlRegex, r.url) =>
                                         /\ waits'[w].state = "fulfilled"
                                         /\ waits'[w].value = r]_vars

\* C17 holds for the class built on EventTarget.
CallbackIsolationOfEventTarget ==
    [][variant = "listener" =>
           \A d \in DOMAIN emitted :
               emitted'[d] # emitted[d] =>
                   \E k \in Kinds :
                       \E r \in RecordsAt(k, d, validating', accepted') :
                           /\ [kind |-> k, rec |-> r] \in validating'
                           /\ \A w \in Waits :
                                  (Subscribed(w) /\ waits[w].kind = k) =>
                                      /\ waits'[w].offered = Append(waits[w].offered, r)
                                      /\ test(waits[w].urlRegex, r.url) =>
                                             /\ waits'[w].state = "fulfilled"
                                             /\ waits'[w].value = r]_vars

\* On the EventTarget hub a wait registered after a throwing listener was
\* fulfilled by a publish.
ResolvedBehindThrowerReached ==
    /\ variant = "listener"
    /\ \E w \in Waits :
           /\ waits[w].state = "fulfilled"
           /\ waits[w].matchRuns = 1
           /\ eventTarget[waits[w].kind] = <<Thrower>>

(* ----------------------- the timeout error's content -------------------- *)

\* C18: the error a timed-out wait is rejected with carries the pattern the wait
\* was called with and the timeout configured for it.
TimeoutErrorIdentifiesWait ==
    \A w \in Waits :
        (waits[w].state = "rejected" /\ waits[w].timerRuns = 1) =>
            /\ "cause" \in DOMAIN waits[w].error
            /\ waits[w].error.cause.urlRegex = waits[w].urlRegex
            /\ waits[w].error.cause.timeout = waits[w].timeout

\* Two waits called with different patterns and timeouts have both timed out.
TwoDifferentWaitsTimedOutReached ==
    \E w1, w2 \in Waits :
        /\ waits[w1].state = "rejected" /\ waits[w1].timerRuns = 1
        /\ waits[w2].state = "rejected" /\ waits[w2].timerRuns = 1
        /\ waits[w1].urlRegex # waits[w2].urlRegex
        /\ waits[w1].timeout # waits[w2].timeout

(* ------------------------- immutability of records ---------------------- *)

\* C19: whatever a caller does to a value an exist handed it, every record held
\* in a store has the field values it had when it was ingested, and so has the
\* value every later exist returns.
StoredRecordsImmutable ==
    /\ [](\A k \in Kinds : \A i \in 1..Len(cache[k]) :
              cache[k][i] \in Range(accepted[k]))
    /\ [][(ret' # ret /\ cache' = cache /\ ret'.op = "exist" /\ ret'.val # NotFound) =>
              ret'.val \in Range(accepted[ret'.kind])]_vars

(* --------------------------- default validator -------------------------- *)

\* C20: with no validator configured no candidate is rejected: the step that
\* completes the ingest of a candidate appends it to the accepted records of its
\* kind and to its store, where only the capacity limit removes records, and
\* the record has been published exactly once by then.
DefaultAcceptsEverything ==
    /\ [](/\ RejectedDates = {}
          /\ \A k \in Kinds :
                 /\ cacheLimit >= 1 => cache[k] = LastN(accepted[k], cacheLimit)
                 /\ \A r \in Range(accepted[k]) : emitted[r.date] = 1)
    /\ [][\A v \in validating :
              v \notin validating' =>
                  /\ accepted'[v.kind] = Append(accepted[v.kind], v.rec)
                  /\ v.rec \in Range(cache'[v.kind])
                  /\ emitted'[v.rec.date] = 1]_vars

\* With no validator configured records of both kinds went through the gate, one
\* store dropped its oldest record and a subscribed wait was fulfilled by a publish.
DefaultAcceptedBothKindsReached ==
    /\ validating = {}
    /\ \A k \in Kinds : accepted[k] # << >>
    /\ \E k \in Kinds : Len(accepted[k]) > Len(cache[k])
    /\ \E w \in Waits : waits[w].state = "fulfilled" /\ waits[w].matchRuns = 1

(* -------------------------------- cleanup ------------------------------- *)

\* C21: between operations, the wait listeners on the hub of a kind are exactly
\* the pending waits of that kind, each registered once, and the armed timers
\* are exactly those of the pending waits; a settled wait has neither listener
\* nor timer, and when every wait has settled no wait listener is registered.
CleanupInvariant ==
    /\ \A k \in Kinds :
           /\ Range(eventTarget[k]) = {w \in Waits : waits[w].state = "pending" /\ waits[w].kind = k}
           /\ Len(eventTarget[k]) = Cardinality(Range(eventTarget[k]))
    /\ timeoutTimer = {w \in Waits : waits[w].state = "pending"}
    /\ \A w \in Waits :
           waits[w].state \in {"fulfilled", "rejected"} =>
               /\ \A k \in Kinds : w \notin Range(eventTarget[k])
               /\ w \notin timeoutTimer
    /\ (\A w \in Waits : waits[w].state \in {"fulfilled", "rejected"}) =>
           /\ \A k \in Kinds : eventTarget[k] = << >>
           /\ timeoutTimer = {}

\* Every wait has settled, one by a match after it had subscribed and one by
\* its timer.
AllSettledByMatchAndTimeoutReached ==
    /\ \A w \in Waits : waits[w].state \in {"fulfilled", "rejected"}
    /\ \E w \in Waits : waits[w].state = "fulfilled" /\ waits[w].matchRuns = 1
    /\ \E w \in Waits : waits[w].state = "rejected" /\ waits[w].timerRuns = 1

(* ---------------------- no window between store and publish ------------- *)

\* C22: no wait is still subscribed while the store of its kind holds a record
\* that matches its pattern and was appended after the wait's store check, and a
\* wait that ended in timeout saw no matching record appended between its call
\* and its timeout.
NoWindow ==
    \A w \in Waits :
        /\ Subscribed(w) =>
               \A r \in Range(cache[waits[w].kind]) :
                   ~(/\ test(waits[w].urlRegex, r.url)
                     /\ AcceptedAt(waits[w].kind, r) > waits[w].callAcc)
        /\ (waits[w].state = "rejected" /\ waits[w].timerRuns = 1) =>
               AcceptedInLifetime(w) = {}

\* C22 holds where the validator is awaited before the push and the emit
\* (onPageCreated), also for a wait started while a decision is in flight.
NoWindowWhenGated == variant = "gated" => NoWindow

(* ---------------------------- gate before effects ----------------------- *)

\* C23: while the validator's decision on a candidate has not been obtained,
\* the candidate is in no store and no wait listener has been invoked with it.
GateBeforeEffects ==
    \A v \in validating :
        /\ v.rec \notin Range(cache[v.kind])
        /\ \A w \in Waits :
               waits[w].kind = v.kind => v.rec \notin Range(waits[w].offered)

\* C23 holds where the validator is awaited before the push and the emit
\* (onPageCreated).
GateBeforeEffectsWhenGated == variant = "gated" => GateBeforeEffects

(* ------------------------- check-then-subscribe ------------------------- *)

\* C24: the step that follows the store check of a wait is the registration of
\* its timer and its listener: no page event, validator decision, publish or
\* store change happens between the check and the registration.
CheckThenSubscribeAtomic ==
    [][\A w \in Waits :
           waits[w].state = "executing" =>
               /\ waits'[w].state = "pending"
               /\ w \in timeoutTimer'
               /\ w \in Range(eventTarget'[waits[w].kind])
               /\ emitted' = emitted
               /\ accepted' = accepted
               /\ cache' = cache
               /\ validating' = validating]_vars

\* A wait checked a store that held records, registered, and was fulfilled by
\* a later publish.
CheckedThenFulfilledReached ==
    \E w \in Waits :
        /\ waits[w].state = "fulfilled"
        /\ waits[w].matchRuns = 1
        /\ waits[w].callAcc >= 1

(* --------------------------- non-matching records ----------------------- *)

\* C25: a wait is fulfilled only with a record its pattern matches, and the
\* step in which its listener is invoked with a record its pattern does not
\* match leaves it pending, its listener registered and its timer armed.
NonMatchLeavesSubscribed ==
    /\ [](\A w \in Waits :
              waits[w].state = "fulfilled" => test(waits[w].urlRegex, waits[w].value.url))
    /\ [][\A w \in Waits :
              (/\ waits'[w].offered # waits[w].offered
               /\ ~test(waits[w].urlRegex, waits'[w].offered[Len(waits'[w].offered)].url)) =>
                  /\ waits'[w] = [waits[w] EXCEPT !.offered = waits'[w].offered]
                  /\ waits'[w].state = "pending"
                  /\ w \in Range(eventTarget'[waits[w].kind])
                  /\ w \in timeoutTimer /\ w \in timeoutTimer']_vars

\* A wait was offered a record its pattern does not match, stayed subscribed,
\* and was fulfilled by the matching record published next.
FulfilledAfterNonMatchReached ==
    \E w \in Waits :
        /\ waits[w].state = "fulfilled"
        /\ Len(waits[w].offered) = 2
        /\ ~test(waits[w].urlRegex, waits[w].offered[1].url)
        /\ waits[w].value = waits[w].offered[2]

(* ------------------------ stable snapshot of a publish ------------------ *)

\* The listeners of the hub the wait w subscribes to.
HubOf(w) ==
    IF waits[w].globalCache THEN browser.eventEmitter[waits[w].kind]
    ELSE eventTarget[waits[w].kind]

\* C26: in a publish in which the listener of a wait resolves and removes itself,
\* the listener of every other wait registered on that hub at the start of the
\* publish is invoked with the record exactly once.
StableSnapshot ==
    [][\A w \in Waits :
           (/\ waits'[w].matchRuns # waits[w].matchRuns
            /\ w \in Range(HubOf(w))) =>
               \A x \in Waits \ {w} :
                   (/\ waits[x].state = "pending"
                    /\ waits[x].kind = waits[w].kind
                    /\ waits[x].globalCache = waits[w].globalCache
                    /\ x \in Range(HubOf(x))) =>
                       waits'[x].offered = Append(waits[x].offered, waits'[w].value)]_vars

\* The listener registered first resolved and removed itself during a publish
\* and the listener registered after it was invoked with that record, which it
\* does not match, and is still subscribed.
LaterListenerInvokedReached ==
    \E w, x \in Waits :
        /\ w < x
        /\ waits[w].state = "fulfilled" /\ waits[w].matchRuns = 1
        /\ waits[x].state = "pending"
        /\ waits[x].kind = waits[w].kind
        /\ waits[x].offered = <<waits[w].value>>
        /\ waits[w].offered = <<waits[w].value>>

(* ------------------------- capacity that changes ------------------------ *)

\* C27: when the ingest of a candidate completes, accepted or rejected, the
\* store of its kind holds at most as many records as the capacity then in force.
CapacityAfterIngest ==
    [][\A v \in validating :
           v \notin validating' => Len(cache'[v.kind]) <= cacheLimit']_vars

\* C27 holds for the ingests that end with an accepted candidate.
CapacityAfterAcceptedIngest ==
    [][\A v \in validating :
           (v \notin validating' /\ accepted'[v.kind] # accepted[v.kind]) =>
               Len(cache'[v.kind]) <= cacheLimit']_vars

(* --------------------------- purity of matching ------------------------- *)

\* C28: an existence check that follows another one for the same kind and the
\* same pattern, with no ingest in between, returns the same result, whatever
\* the flags of the pattern.
MatchingIsPure ==
    [][(/\ ret.op = "exist" /\ ret'.op = "exist"
        /\ ret'.kind = ret.kind
        /\ ret'.called.source = ret.called.source
        /\ ret'.called.flags = ret.called.flags) =>
           ret'.val = ret.val]_vars

\* C28 holds for patterns without the global and the sticky flag.
MatchingIsPureWithoutFlags ==
    [][(/\ ret.op = "exist" /\ ret'.op = "exist"
        /\ ret'.kind = ret.kind
        /\ ret'.called.source = ret.called.source
        /\ ret'.called.flags = ret.called.flags
        /\ ret.called.flags = "") =>
           ret'.val = ret.val]_vars

(* ------------------------------ kind isolation -------------------------- *)

\* C29: a step of the ingest of a record of one kind leaves the store, the
\* accepted records, the candidates before the validator, the listeners and the
\* waits of the other kind as they were; a wait is fulfilled only with a record
\* of its own kind.
KindIsolation ==
    [][/\ \A v \in (validating' \ validating) \cup (validating \ validating') :
              \A o \in Kinds \ {v.kind} :
                  /\ cache'[o] = cache[o]
                  /\ accepted'[o] = accepted[o]
                  /\ eventTarget'[o] = eventTarget[o]
                  /\ {x \in validating' : x.kind = o} = {x \in validating : x.kind = o}
                  /\ \A w \in Waits : waits[w].kind = o => waits'[w] = waits[w]
       /\ \A w \in Waits :
              (waits'[w].state = "fulfilled" /\ waits[w].state # "fulfilled") =>
                  waits'[w].value \in Range(cache'[waits'[w].kind])
                                          \cup Range(accepted'[waits'[w].kind])
                                          \cup {x.rec : x \in {y \in validating' :
                                                          y.kind = waits'[w].kind}}]_vars

\* A response wait subscribed first and was left alone while the publish of a
\* request fulfilled a request wait called after it.
OtherKindUntouchedReached ==
    \E w, x \in Waits :
        /\ x < w
        /\ waits[x].kind = "response" /\ waits[x].state = "pending"
        /\ waits[x].offered = << >>
        /\ waits[w].kind = "request" /\ waits[w].state = "fulfilled"
        /\ waits[w].matchRuns = 1

(* ------------------------- who changes what ----------------------------- *)

\* C30: a store changes only in a step that accepts a candidate; an existence
\* check changes no store, no subscriber list, no timer and no wait; in every
\* step the listeners of the waits whose state does not change stay registered
\* as they were, in the same order; a wait call and a timeout change no store.
FrameOfOperations ==
    [][/\ cache' # cache => \E k \in Kinds : accepted'[k] # accepted[k]
       /\ (ret' # ret /\ ret'.op = "exist") =>
              /\ cache' = cache
              /\ eventTarget' = eventTarget
              /\ timeoutTimer' = timeoutTimer
              /\ waits' = waits
       /\ \A k \in Kinds :
              SelectSeq(eventTarget'[k], LAMBDA x : waits'[x].state = waits[x].state)
                  = SelectSeq(eventTarget[k], LAMBDA x : waits'[x].state = waits[x].state)
       /\ \A w \in Waits :
              (\/ waits[w].state = "unused" /\ waits'[w].state # "unused"
               \/ waits'[w].timerRuns # waits[w].timerRuns) =>
                  cache' = cache]_vars

\* An existence check found a record while one wait was subscribed and another
\* had been fulfilled by a publish.
ExistBesideWaitsReached ==
    /\ ret.op = "exist"
    /\ ret.val # NotFound
    /\ \E w \in Waits : waits[w].state = "pending"
    /\ \E w \in Waits : waits[w].state = "fulfilled" /\ waits[w].matchRuns = 1

(* ----------------------- front insert and append ------------------------ *)

Reverse(s) == [i \in 1..Len(s) |-> s[Len(s) + 1 - i]]

RECURSIVE AppendStore(_, _, _)
\* The store the append variant (push, then slice(-limit)) holds after the
\* first n records of acc were accepted.
AppendStore(acc, limit, n) ==
    IF n = 0 THEN << >> ELSE push(AppendStore(acc, limit, n - 1), acc[n], limit)

GlobalWaitChecksBrowserStore ==
    [][\A w \in Waits :
           (waits[w].state = "unused" /\ waits'[w].state # "unused" /\ waits'[w].globalCache) =>
               LET k == waits'[w].kind
                   existing == scopedExistRequest(k, waits'[w].urlRegex, TRUE)
               IN IF existing # NotFound
                  THEN /\ waits'[w].state = "fulfilled"
                       /\ waits'[w].value = existing
                       /\ w \notin Range(browser'.eventEmitter[k])
                       /\ w \notin timeoutTimer'
                  ELSE /\ waits'[w].state = "pending"
                       /\ w \in Range(browser'.eventEmitter[k])
                       /\ w \in timeoutTimer']_vars

\* C32 holds while the page's store and the browser's store hold the same records.
GlobalWaitChecksBrowserStoreWhenStoresAgree ==
    [][\A w \in Waits :
           (/\ waits[w].state = "unused" /\ waits'[w].state # "unused" /\ waits'[w].globalCache
            /\ cache = browser.cache) =>
               LET k == waits'[w].kind
                   existing == scopedExistRequest(k, waits'[w].urlRegex, TRUE)
               IN IF existing # NotFound
                  THEN /\ waits'[w].state = "fulfilled"
                       /\ waits'[w].value = existing
                  ELSE /\ waits'[w].state = "pending"
                       /\ w \in Range(browser'.eventEmitter[k])]_vars

(* --------------------------- stored before handed ----------------------- *)

\* C33: with capacity >= 1, in the step in which the listener of a wait resolves
\* it with a record, that record is in the store of its kind, and an existence
\* check for the wait's pattern at that moment finds a record.
StoredBeforeHanded ==
    [][\A w \in Waits :
           (waits'[w].matchRuns # waits[w].matchRuns /\ cacheLimit >= 1) =>
               /\ waits'[w].value \in Range(cache'[waits'[w].kind])
               /\ find(cache'[waits'[w].kind], waits'[w].urlRegex, 1) # NotFound]_vars

\* C33 holds where the record is pushed before it is emitted (onPageCreated).
StoredBeforeHandedWhenGated ==
    [][\A w \in Waits :
           (/\ waits'[w].matchRuns # waits[w].matchRuns /\ cacheLimit >= 1
            /\ variant = "gated") =>
               /\ waits'[w].value \in Range(cache'[waits'[w].kind])
               /\ find(cache'[waits'[w].kind], waits'[w].urlRegex, 1) # NotFound]_vars

(* --------------------------- order of the store ------------------------- *)

\* C34: of two records retained in the store of a kind, the one stamped earlier
\* is nearer the oldest end.
StoreInCaptureOrder ==
    \A k \in Kinds : \A i, j \in 1..Len(cache[k]) :
        i < j => cache[k][i].date < cache[k][j].date

(* --------------------------- overlapping ingests ------------------------ *)

\* C35: every accepted candidate is appended once, whatever else is in flight:
\* no record is accepted or stored twice, with capacity >= 1 the store holds the
\* most recently accepted records, and the step that accepts a candidate puts
\* it into the store, leaves the other candidates in flight and removes from
\* the store only records accepted before every record it keeps.
OverlappingIngestsLoseNothing ==
    /\ [](\A k \in Kinds :
              /\ Cardinality(Range(accepted[k])) = Len(accepted[k])
              /\ Cardinality(Range(cache[k])) = Len(cache[k])
              /\ cacheLimit >= 1 =>
                     Range(cache[k]) = Range(LastN(accepted[k], cacheLimit)))
    /\ [][\A v \in validating :
              (v \notin validating' /\ accepted'[v.kind] # accepted[v.kind]) =>
                  /\ validating' = validating \ {v}
                  /\ accepted'[v.kind] = Append(accepted[v.kind], v.rec)
                  /\ v.rec \in Range(cache'[v.kind])
                  /\ Range(cache'[v.kind]) \subseteq Range(cache[v.kind]) \cup {v.rec}
                  /\ \A gone \in Range(cache[v.kind]) \ Range(cache'[v.kind]) :
                         \A kept \in Range(cache'[v.kind]) :
                             AcceptedAt(v.kind, gone)' < AcceptedAt(v.kind, kept)']_vars

\* Two ingests of one kind were in flight together, the one that started later
\* was accepted first, and the store holds both records.
OverlappingAcceptedReached ==
    \E k \in Kinds :
        /\ Len(accepted[k]) >= 2
        /\ accepted[k][1].date > accepted[k][2].date
        /\ {accepted[k][1], accepted[k][2]} \subseteq Range(cache[k])

(* ------------------------------ capacity zero --------------------------- *)

\* C36: with capacity 0 the store of each kind holds no record, before and after
\* every ingest.
ZeroCapacityKeepsNothing ==
    cacheLimit = 0 => \A k \in Kinds : cache[k] = << >>

(* --------------------------- the browser's store ------------------------ *)

====
